---- MODULE Spec2Model ----
(***************************************************************************)
(* Dublin Luas integration (homeassistant/components/dublin_luas).         *)
(*                                                                         *)
(* The specifications of this module:                                      *)
(*   SpecFlow  the config flow's user step over validate_input             *)
(*   SpecRead  the property reads of the tram sensors over a cached list   *)
(*   Spec      setup, the two polling coordinators, unload                 *)
(*   FairSpec  Spec with the timers firing and the fetches ending          *)
(*   SpecId    the unique_id of two sensors                                *)
(*                                                                         *)
(* Python strings that the code formats, lower-cases, parses or compares   *)
(* are tuples of one-character strings, so that concatenation, lower() and *)
(* int() are computed and not assumed.  Python's None is the record None.  *)
(***************************************************************************)
EXTENDS Integers, Sequences, FiniteSets, TLC

VARIABLES
    user_input,     \* config flow: the argument of the last async_step_user
    flow_result,    \* config flow: the FlowResult of the last async_step_user
    entry,          \* the config entry's data (entry.data)
    cache,          \* coordinator name -> DataUpdateCoordinator.data
    last_read,      \* the last property read of a sensor and what it did
    pc,             \* position of the entry's setup / unload
    hass_data,      \* hass.data[DOMAIN]: the entry ids that hold a LuasClient
    coord,          \* coordinator name -> state of its refresh cycle
    update_ok,      \* coordinator name -> last_update_success
    timer,          \* coordinator name -> the interval timer is armed
    refreshed,      \* coordinator name -> its first refresh has completed
    entities,       \* the sensors handed to async_add_entities
    green_status,   \* async_update_status_data's local, between its two calls
    api_result,     \* coordinator name -> how the last call of its last refresh ended
    sensor_pair,    \* SpecId: two sensor objects
    uid_read        \* SpecId: the unique_id values read from them

vars == <<user_input, flow_result, entry, cache, last_read, pc, hass_data,
          coord, update_ok, timer, refreshed, entities, green_status, api_result,
          sensor_pair, uid_read>>

None == [none |-> TRUE]

\* How one call of the transit client ends
ApiReturn(v) == [kind |-> "return", val |-> v]
ApiRaise == [kind |-> "raise"]
ApiTimeout == [kind |-> "timeout"]

-----------------------------------------------------------------------------
(* String constants *)

ATTR_INBOUND_VAL == <<"I","n","b","o","u","n","d">>
ATTR_OUTBOUND_VAL == <<"O","u","t","b","o","u","n","d">>
ATTR_DUE_VAL == <<"D","U","E">>
s_Sideways == <<"S","i","d","e","w","a","y","s">>
s_ABB == <<"A","B","B">>
s_CON == <<"C","O","N">>
s_TPT == <<"T","P","T">>
s_XXX == <<"X","X","X">>
s_Abbey_Street == <<"A","b","b","e","y"," ","S","t","r","e","e","t">>
s_Connolly == <<"C","o","n","n","o","l","l","y">>
s_The_Point == <<"T","h","e"," ","P","o","i","n","t">>
s_from == <<" ","f","r","o","m"," ">>
s_to == <<" ","t","o"," ">>
s_luas_from == <<"l","u","a","s","_","f","r","o","m","_">>
s__to_ == <<"_","t","o","_">>
s_us == <<"_">>
s_luas_wait_time_from == <<"l","u","a","s","_","w","a","i","t","_","t","i","m","e","_","f","r","o","m","_">>
s_luas_status == <<"l","u","a","s","_","s","t","a","t","u","s","_">>
s_green == <<"g","r","e","e","n">>
s_red == <<"r","e","d">>
UpperCase == <<"A","B","C","D","E","F","G","H","I","J","K","L","M","N","O","P","Q","R","S","T","U","V","W","X","Y","Z">>
LowerCase == <<"a","b","c","d","e","f","g","h","i","j","k","l","m","n","o","p","q","r","s","t","u","v","w","x","y","z">>
DigitChars == <<"0","1","2","3","4","5","6","7","8","9">>

(* str.lower() *)
LowerChar(c) ==
    IF \E i \in DOMAIN UpperCase : UpperCase[i] = c
    THEN LowerCase[CHOOSE i \in DOMAIN UpperCase : UpperCase[i] = c]
    ELSE c

Lower(s) == [i \in DOMAIN s |-> LowerChar(s[i])]

-----------------------------------------------------------------------------
(* The stop directory (luas.models.LUAS_STOPS, LuasStops) *)

\* Three stops of the red line; s_XXX is the abbreviation of no stop.
LUAS_STOPS ==
    { [abrev |-> s_ABB, name |-> s_Abbey_Street],
      [abrev |-> s_CON, name |-> s_Connolly],
      [abrev |-> s_TPT, name |-> s_The_Point] }

stop_exists(code) == \E s \in LUAS_STOPS : s.abrev = code

\* LuasStops().stop(code), used only for codes that exist
stop(code) == CHOOSE s \in LUAS_STOPS : s.abrev = code

-----------------------------------------------------------------------------
(* config_flow.py *)

Has(data, key) == key \in DOMAIN data

Raise(exc) == [kind |-> "raise", exc |-> exc]

\* validate_input with the direction checked before the destination
validate_input_direction_first(data) ==
    IF ~stop_exists(data["stop"]) THEN Raise("InvalidLuasStop")
    ELSE IF ~Has(data, "direction") THEN Raise("KeyError")
    ELSE IF data["direction"] \notin {ATTR_INBOUND_VAL, ATTR_OUTBOUND_VAL}
         THEN Raise("InvalidDirection")
    ELSE IF Has(data, "destination") /\ ~stop_exists(data["destination"])
         THEN Raise("InvalidLuasDestination")
    ELSE [kind |-> "return", title |-> data["direction"] \o s_from \o data["stop"]]

\* validate_input(hass, data): a lookup data["k"] of an absent key raises
\* KeyError, in the order the code makes the lookups.
validate_input(data) ==
    IF ~Has(data, "stop") THEN Raise("KeyError")
    ELSE IF ~stop_exists(data["stop"]) THEN Raise("InvalidLuasStop")
    ELSE IF Has(data, "destination") /\ ~stop_exists(data["destination"])
         THEN Raise("InvalidLuasDestination")
    ELSE IF ~Has(data, "direction") THEN Raise("KeyError")
    ELSE IF data["direction"] \notin {ATTR_INBOUND_VAL, ATTR_OUTBOUND_VAL}
         THEN Raise("InvalidDirection")
    ELSE LET title == data["direction"] \o s_from \o data["stop"]
         IN  [kind |-> "return",
              title |-> IF Has(data, "destination")
                        THEN title \o s_to \o data["destination"]
                        ELSE title]

async_show_form(errors) == [type |-> "form", step_id |-> "user", errors |-> errors]

async_create_entry(title, data) == [type |-> "create_entry", title |-> title, data |-> data]

\* ConfigFlow.async_step_user(user_input); errors is the dict {"base": ...}
async_step_user(input) ==
    IF input = None THEN async_show_form({})
    ELSE LET info == validate_input(input)
         IN  IF info.kind = "raise"
             THEN IF info.exc = "InvalidLuasStop"
                      THEN async_show_form({<<"base", "invalid_stop">>})
                  ELSE IF info.exc = "InvalidDirection"
                      THEN async_show_form({<<"base", "invalid_direction">>})
                  ELSE async_show_form({<<"base", "unknown">>})
             ELSE async_create_entry(info.title, input)

\* What a caller can submit to the user step.  The form's schema offers only
\* known stops and the two directions; a step called with other data (the
\* flow API, a changed directory) is what validate_input is there for.
StopCodes == {s_ABB, s_CON, s_TPT, s_XXX}
DirectionTokens == {ATTR_INBOUND_VAL, ATTR_OUTBOUND_VAL, s_Sideways}
WalkTimes == {0, 7}

Merge(f, g) == [k \in DOMAIN f \cup DOMAIN g |-> IF k \in DOMAIN g THEN g[k] ELSE f[k]]

UserInputs ==
    { Merge(Merge(Merge(s, d), t), w) :
        s \in { [stop |-> c] : c \in StopCodes },
        d \in { [direction |-> x] : x \in DirectionTokens } \cup { <<>> },
        t \in { [destination |-> c] : c \in StopCodes \ {s_ABB} } \cup { <<>> },
        w \in { [walk_time |-> n] : n \in WalkTimes } \cup { <<>> } }

-----------------------------------------------------------------------------
(* sensor.py: what the transit client returns *)

s_empty == <<>>
s_3 == <<"3">>
s_7 == <<"7">>
s_12 == <<"1","2">>

Tram(direction, destination, due) ==
    [direction |-> direction, destination |-> destination, due |-> due]

\* Raw arrival records as api.stop_details reports them: the due field is
\* "DUE", a decimal string, or empty when no forecast is given.
TramDomain ==
    { Tram(ATTR_INBOUND_VAL, s_Connolly, ATTR_DUE_VAL),
      Tram(ATTR_INBOUND_VAL, s_Connolly, s_7),
      Tram(ATTR_INBOUND_VAL, s_The_Point, s_12),
      Tram(ATTR_OUTBOUND_VAL, s_Connolly, s_3),
      Tram(ATTR_INBOUND_VAL, s_Connolly, s_empty) }

MaxTrams == 4

TramLists == UNION { [1..n -> TramDomain] : n \in 0..MaxTrams }

\* the dict api.stop_details returns, with its ATTR_TRAMS list
StopDetails(trams) == [trams |-> trams]

-----------------------------------------------------------------------------
(* sensor.py: int(), and the sensors *)

Return(v) == [kind |-> "return", val |-> v]

IsDigit(c) == \E i \in DOMAIN DigitChars : DigitChars[i] = c

DigitVal(c) == (CHOOSE i \in DOMAIN DigitChars : DigitChars[i] = c) - 1

RECURSIVE DigitsValue(_)
DigitsValue(s) ==
    IF s = <<>> THEN 0
    ELSE 10 * DigitsValue(SubSeq(s, 1, Len(s) - 1)) + DigitVal(s[Len(s)])

\* Python's int(str): an optional sign and at least one decimal digit, else
\* ValueError (surrounding blanks and digit-group underscores, which int()
\* also accepts, do not occur in TramDomain).
int(s) ==
    LET signed == s # <<>> /\ s[1] \in {"+", "-"}
        body == IF signed THEN Tail(s) ELSE s
    IN  IF body = <<>> \/ \E i \in DOMAIN body : ~IsDigit(body[i])
        THEN Raise("ValueError")
        ELSE Return(IF signed /\ s[1] = "-" THEN 0 - DigitsValue(body) ELSE DigitsValue(body))

RECURSIVE str(_)
\* str() of a non-negative int, as an f-string formats it
str(n) == IF n < 10 THEN <<DigitChars[n + 1]>> ELSE str(n \div 10) \o <<DigitChars[(n % 10) + 1]>>

\* entry.data.get(key)
Get(data, key) == IF Has(data, key) THEN data[key] ELSE None

\* truth value of a str or None argument
Truthy(v) == v # None /\ v # <<>>

\* LuasTramSensor.__init__
LuasTramSensor(index, stop_code, direction, destination) ==
    [class |-> "LuasTramSensor",
     index |-> index,
     stop |-> stop(stop_code),
     direction |-> direction,
     destination |-> IF Truthy(destination) THEN stop(destination) ELSE None]

\* LuasTramWaitSensor.__init__
LuasTramWaitSensor(walk_time, stop_code, direction, destination) ==
    [class |-> "LuasTramWaitSensor",
     walk_time |-> walk_time,
     stop |-> stop(stop_code),
     direction |-> direction,
     destination |-> IF Truthy(destination) THEN stop(destination) ELSE None]

\* LuasStatusSensor.__init__
LuasStatusSensor(line) == [class |-> "LuasStatusSensor", line |-> line]

\* the filter without its destination step
FilterTrams_direction_only(self, trams) ==
    LET SameDirection(t) == t.direction = self.direction
    IN  SelectSeq(trams, SameDirection)

\* the two list comprehensions that open _get_tram and _get_trams
FilterTrams(self, trams) ==
    LET SameDirection(t) == t.direction = self.direction
        SameDestination(t) == t.destination = self.destination.name
        by_direction == SelectSeq(trams, SameDirection)
    IN  IF self.destination # None
        THEN SelectSeq(by_direction, SameDestination)
        ELSE by_direction

\* 0 if due == "DUE" else int(due)
ParseDue(due) == IF due = ATTR_DUE_VAL THEN Return(0) ELSE int(due)

\* LuasTramSensor._get_tram over coordinator.data
get_tram(self, data) ==
    IF data = None THEN Raise("TypeError")
    ELSE LET trams == FilterTrams(self, data.trams)
         IN  IF self.index + 1 > Len(trams) THEN Raise("IndexError")
             ELSE LET due == ParseDue(trams[self.index + 1].due)
                  IN  IF due.kind = "raise" THEN due
                      ELSE Return([due |-> due.val,
                                   direction |-> trams[self.index + 1].direction,
                                   destination |-> trams[self.index + 1].destination])

\* LuasTramSensor.available: the bare except turns every exception into False
LuasTramSensor_available(self, data) ==
    get_tram(self, data).kind = "return"

\* LuasTramSensor.state
LuasTramSensor_state(self, data) ==
    LET tram == get_tram(self, data)
    IN  IF tram.kind = "raise" THEN tram ELSE [kind |-> "return", n |-> tram.val.due]

\* LuasTramSensor.extra_state_attributes
LuasTramSensor_extra_state_attributes(self, data) ==
    LET tram == get_tram(self, data)
    IN  IF tram.kind = "raise" THEN tram
        ELSE [kind |-> "return",
              attrs |-> [destination |-> tram.val.destination,
                         direction |-> tram.val.direction,
                         stop |-> self.stop.name]]

RECURSIVE ParseAll(_)
\* the comprehension that closes _get_trams: every due of the filtered list is
\* parsed, in order, and the first failure raises
ParseAll(trams) ==
    IF trams = <<>> THEN Return(<<>>)
    ELSE LET due == ParseDue(Head(trams).due)
             rest == ParseAll(Tail(trams))
         IN  IF due.kind = "raise" THEN due
             ELSE IF rest.kind = "raise" THEN rest
             ELSE Return(<<[due |-> due.val,
                            direction |-> Head(trams).direction,
                            destination |-> Head(trams).destination]>> \o rest.val)

\* LuasTramWaitSensor._get_trams
get_trams(self, data) ==
    IF data = None THEN Raise("TypeError")
    ELSE ParseAll(FilterTrams(self, data.trams))

\* _get_next_tram with >= for >
get_next_tram_not_strict(self, data) ==
    IF data = None THEN Raise("TypeError")
    ELSE LET trams == ParseAll(FilterTrams(self, data.trams))
         IN  IF trams.kind = "raise" THEN trams
             ELSE LET later == { i \in DOMAIN trams.val : trams.val[i].due >= self.walk_time }
                  IN  IF later = {} THEN Return(None)
                      ELSE Return(trams.val[CHOOSE i \in later : \A j \in later : i <= j])

\* LuasTramWaitSensor._get_next_tram: the first tram with due > walk_time, and
\* None when the loop ends without one
get_next_tram(self, data) ==
    LET trams == get_trams(self, data)
    IN  IF trams.kind = "raise" THEN trams
        ELSE LET later == { i \in DOMAIN trams.val : trams.val[i].due > self.walk_time }
             IN  IF later = {} THEN Return(None)
                 ELSE Return(trams.val[CHOOSE i \in later : \A j \in later : i <= j])

\* LuasTramWaitSensor.available
LuasTramWaitSensor_available(self, data) ==
    get_next_tram(self, data).kind = "return"

\* LuasTramWaitSensor.state
LuasTramWaitSensor_state(self, data) ==
    LET next_tram == get_next_tram(self, data)
    IN  IF next_tram.kind = "raise" THEN next_tram
        ELSE IF next_tram.val # None
             THEN [kind |-> "return", n |-> next_tram.val.due - self.walk_time]
             ELSE [kind |-> "return", s |-> "unknown"]

\* LuasStatusSensor.state: coordinator.data[self._line]
LuasStatusSensor_state(self, data) ==
    IF data = None THEN Raise("TypeError")
    ELSE [kind |-> "return", s |-> data.items[self.line]]

\* LuasTramSensor.unique_id
LuasTramSensor_unique_id(self) ==
    IF self.destination # None
    THEN Lower(s_luas_from \o self.stop.abrev \o s__to_ \o self.destination.abrev
               \o s_us \o self.direction \o s_us \o str(self.index + 1))
    ELSE Lower(s_luas_from \o self.stop.abrev \o s_us \o self.direction
               \o s_us \o str(self.index + 1))

\* LuasTramWaitSensor.unique_id
LuasTramWaitSensor_unique_id(self) ==
    IF self.destination # None
    THEN Lower(s_luas_wait_time_from \o self.stop.abrev \o s__to_ \o self.destination.abrev)
    ELSE Lower(s_luas_wait_time_from \o self.stop.abrev)

\* LuasStatusSensor.unique_id
LuasStatusSensor_unique_id(self) == Lower(s_luas_status \o self.line)

unique_id(self) ==
    CASE self.class = "LuasTramSensor" -> LuasTramSensor_unique_id(self)
      [] self.class = "LuasTramWaitSensor" -> LuasTramWaitSensor_unique_id(self)
      [] self.class = "LuasStatusSensor" -> LuasStatusSensor_unique_id(self)

\* the sensors, with the wait sensor only for a walk_time that is true
SensorsOf_truthy_walk_time(data) ==
    { LuasStatusSensor(s_green), LuasStatusSensor(s_red) }
    \cup { LuasTramSensor(i, data["stop"], data["direction"], Get(data, "destination"))
           : i \in 0..3 }
    \cup IF Has(data, "walk_time") /\ data["walk_time"] # 0
         THEN { LuasTramWaitSensor(data["walk_time"], data["stop"], data["direction"],
                                   Get(data, "destination")) }
         ELSE {}

\* the sensors async_setup_entry hands to async_add_entities, in its two calls
SensorsOf(data) ==
    { LuasStatusSensor(s_green), LuasStatusSensor(s_red) }
    \cup { LuasTramSensor(i, data["stop"], data["direction"], Get(data, "destination"))
           : i \in 0..3 }
    \cup IF Has(data, "walk_time")
         THEN { LuasTramWaitSensor(data["walk_time"], data["stop"], data["direction"],
                                   Get(data, "destination")) }
         ELSE {}

-----------------------------------------------------------------------------
(* Property reads *)

Coordinators == {"stop", "status"}

\* The coordinator a sensor was constructed with
CoordinatorOf(self) == IF self.class = "LuasStatusSensor" THEN "status" ELSE "stop"

Properties(self) ==
    CASE self.class = "LuasTramSensor" -> {"available", "state", "extra_state_attributes"}
      [] self.class = "LuasTramWaitSensor" -> {"available", "state"}
      [] self.class = "LuasStatusSensor" -> {"state"}

\* One read of property prop of sensor self, over its coordinator's data
ReadProperty(self, prop, data) ==
    CASE self.class = "LuasTramSensor" /\ prop = "available" ->
            [kind |-> "return", b |-> LuasTramSensor_available(self, data)]
      [] self.class = "LuasTramSensor" /\ prop = "state" ->
            LuasTramSensor_state(self, data)
      [] self.class = "LuasTramSensor" /\ prop = "extra_state_attributes" ->
            LuasTramSensor_extra_state_attributes(self, data)
      [] self.class = "LuasTramWaitSensor" /\ prop = "available" ->
            [kind |-> "return", b |-> LuasTramWaitSensor_available(self, data)]
      [] self.class = "LuasTramWaitSensor" /\ prop = "state" ->
            LuasTramWaitSensor_state(self, data)
      [] self.class = "LuasStatusSensor" /\ prop = "state" ->
            LuasStatusSensor_state(self, data)

\* The host reads every property of a registered sensor, each on its own
Read(self) ==
    /\ self \in entities
    /\ last_read' = [sensor |-> self,
                     result |-> [prop \in Properties(self) |->
                                    ReadProperty(self, prop, cache[CoordinatorOf(self)])]]
    /\ UNCHANGED <<user_input, flow_result, entry, cache, pc, hass_data, coord,
                   update_ok, timer, refreshed, entities, green_status, api_result,
                   sensor_pair, uid_read>>

-----------------------------------------------------------------------------
(* SpecFlow: the config flow *)

FlowVars == <<user_input, flow_result>>
EntryVars == <<entry, cache, last_read, pc, hass_data, coord, update_ok, timer,
               refreshed, entities, green_status, api_result>>
IdVars == <<sensor_pair, uid_read>>

NoEntry ==
    /\ entry = None
    /\ cache = [c \in Coordinators |-> None]
    /\ last_read = None
    /\ pc = "none"
    /\ hass_data = {}
    /\ coord = [c \in Coordinators |-> "Uninitialized"]
    /\ update_ok = [c \in Coordinators |-> TRUE]
    /\ timer = [c \in Coordinators |-> FALSE]
    /\ refreshed = [c \in Coordinators |-> FALSE]
    /\ entities = {}
    /\ green_status = None
    /\ api_result = [c \in Coordinators |-> [kind |-> "none"]]

NoFlow == user_input = None /\ flow_result = None

NoPair == sensor_pair = None /\ uid_read = None

InitFlow == NoFlow /\ NoEntry /\ NoPair

\* async_step_user(None): the form, before anything was submitted
StepUserShow ==
    /\ flow_result = None
    /\ user_input' = None
    /\ flow_result' = async_step_user(None)
    /\ UNCHANGED <<EntryVars, IdVars>>

\* async_step_user(user_input) on a form that is shown
StepUserSubmit ==
    /\ flow_result # None
    /\ flow_result.type = "form"
    /\ \E input \in UserInputs :
          /\ user_input' = input
          /\ flow_result' = async_step_user(input)
    /\ UNCHANGED <<EntryVars, IdVars>>

\* the flow ended with an entry; the next flow is a new ConfigFlow object
NewFlow ==
    /\ flow_result # None
    /\ flow_result.type = "create_entry"
    /\ user_input' = None
    /\ flow_result' = None
    /\ UNCHANGED <<EntryVars, IdVars>>

NextFlow == StepUserShow \/ StepUserSubmit \/ NewFlow

SpecFlow == InitFlow /\ [][NextFlow]_vars

-----------------------------------------------------------------------------
(* SpecRead: reads of the tram sensors over every cached arrival list *)

\* Entries the flow creates for stop ABB, each with a walk_time
ReadEntries ==
    { e \in UserInputs :
        /\ async_step_user(e).type = "create_entry"
        /\ e["stop"] = s_ABB
        /\ Has(e, "walk_time") }

InitRead ==
    /\ NoFlow /\ NoPair
    /\ entry \in ReadEntries
    /\ \E data \in {None} \cup { StopDetails(l) : l \in TramLists } :
          cache = [c \in Coordinators |-> IF c = "stop" THEN data ELSE None]
    /\ last_read = None
    /\ pc = "running"
    /\ hass_data = {"entry"}
    /\ coord = [c \in Coordinators |-> IF cache[c] = None THEN "Failed" ELSE "Ready"]
    /\ update_ok = [c \in Coordinators |-> cache[c] # None]
    /\ timer = [c \in Coordinators |-> TRUE]
    /\ refreshed = [c \in Coordinators |-> TRUE]
    /\ entities = SensorsOf(entry)
    /\ green_status = None
    /\ api_result = [c \in Coordinators |-> IF cache[c] = None THEN ApiRaise ELSE ApiReturn(cache[c])]

ReadTram == \E self \in entities : self.class = "LuasTramSensor" /\ Read(self)

ReadWait == \E self \in entities : self.class = "LuasTramWaitSensor" /\ Read(self)

NextRead == ReadTram \/ ReadWait

SpecRead == InitRead /\ [][NextRead]_vars

-----------------------------------------------------------------------------
(* Spec: setup of an entry, the two coordinators, unload *)

MaxPolledTrams == 1

\* what api.stop_details can return in this specification
PolledTrams ==
    { Tram(ATTR_INBOUND_VAL, s_Connolly, ATTR_DUE_VAL),
      Tram(ATTR_INBOUND_VAL, s_Connolly, s_7) }

PolledDetails == { StopDetails(l) : l \in UNION { [1..n -> PolledTrams] : n \in 0..MaxPolledTrams } }

\* what api.line_status can return
LineStatuses == {"Operating normally", "Delays"}

\* the dict {"green": green_status, "red": red_status}; its items are keyed by
\* Python strings, and the record around them is what compares with None
StatusDict(green, red) == [items |-> (s_green :> green) @@ (s_red :> red)]

\* async_update_stop_data with the call's outcome: an exception of the call
\* and the 30 s timeout both leave through the except clause
async_update_stop_data(outcome) ==
    IF outcome.kind = "return" THEN Return(outcome.val) ELSE Raise("UpdateFailed")

\* async_update_status_data after its second call: green is the first call's
\* result, outcome how the second call (or the 10 s timeout) ended
async_update_status_data_partial(green, outcome) ==
    IF outcome.kind = "return"
    THEN Return(StatusDict(green, outcome.val))
    ELSE Return(StatusDict(green, "unknown"))

async_update_status_data(green, outcome) ==
    IF outcome.kind = "return"
    THEN Return(StatusDict(green, outcome.val))
    ELSE Raise("UpdateFailed")

\* Entries the flow creates, as Spec sets them up
SetupEntries ==
    { e \in UserInputs :
        /\ async_step_user(e).type = "create_entry"
        /\ e["stop"] = s_ABB
        /\ e["direction"] = ATTR_INBOUND_VAL
        /\ Has(e, "destination") => e["destination"] = s_CON }

Init ==
    /\ NoFlow /\ NoPair
    /\ entry \in SetupEntries
    /\ cache = [c \in Coordinators |-> None]
    /\ last_read = None
    /\ pc = "created"
    /\ hass_data = {}
    /\ coord = [c \in Coordinators |-> "Uninitialized"]
    /\ update_ok = [c \in Coordinators |-> TRUE]
    /\ timer = [c \in Coordinators |-> FALSE]
    /\ refreshed = [c \in Coordinators |-> FALSE]
    /\ entities = {}
    /\ green_status = None
    /\ api_result = [c \in Coordinators |-> [kind |-> "none"]]

\* __init__.async_setup_entry: the client is stored, the platform is forwarded
InitSetupEntry ==
    /\ pc = "created"
    /\ hass_data' = hass_data \cup {"entry_id"}
    /\ pc' = "platform"
    /\ UNCHANGED <<FlowVars, IdVars, entry, cache, last_read, coord, update_ok, timer,
                   refreshed, entities, green_status, api_result>>

\* sensor.async_setup_entry up to its first await: the client is looked up,
\* both coordinators are constructed, the stop coordinator's first refresh starts
SensorSetupEntry ==
    /\ pc = "platform"
    /\ "entry_id" \in hass_data
    /\ coord' = [coord EXCEPT !["stop"] = "Refreshing"]
    /\ pc' = "first_refresh_stop"
    /\ UNCHANGED <<FlowVars, IdVars, entry, cache, last_read, hass_data, update_ok, timer,
                   refreshed, entities, green_status, api_result>>

\* The coordinator ends a refresh with what its update method returned or
\* raised: a result replaces the cache, UpdateFailed leaves it and is reported
\* as a failed update; either way the interval timer is armed again.
EndRefresh(c, result, how) ==
    /\ cache' = [cache EXCEPT ![c] = IF result.kind = "return" THEN result.val ELSE @]
    /\ update_ok' = [update_ok EXCEPT ![c] = (result.kind = "return")]
    /\ coord' = [coord EXCEPT ![c] = IF result.kind = "return" THEN "Ready" ELSE "Failed"]
    /\ timer' = [timer EXCEPT ![c] = TRUE]
    /\ refreshed' = [refreshed EXCEPT ![c] = TRUE]
    /\ api_result' = [api_result EXCEPT ![c] = how]

\* api.stop_details ends and the stop coordinator's refresh with it
StopFetched ==
    /\ coord["stop"] = "Refreshing"
    /\ \E outcome \in { ApiReturn(d) : d \in PolledDetails } \cup {ApiRaise, ApiTimeout} :
          EndRefresh("stop", async_update_stop_data(outcome), outcome)
    /\ UNCHANGED <<FlowVars, IdVars, entry, last_read, pc, hass_data, entities, green_status>>

\* api.line_status(LuasLine.Green) ends: its result is kept for the second
\* call, its failure ends the refresh
GreenFetched ==
    /\ coord["status"] = "Refreshing"
    /\ green_status = None
    /\ \E outcome \in { ApiReturn(v) : v \in LineStatuses } \cup {ApiRaise, ApiTimeout} :
          IF outcome.kind = "return"
          THEN /\ green_status' = [val |-> outcome.val]
               /\ UNCHANGED <<cache, update_ok, coord, timer, refreshed, api_result>>
          ELSE /\ green_status' = None
               /\ EndRefresh("status", Raise("UpdateFailed"), outcome)
    /\ UNCHANGED <<FlowVars, IdVars, entry, last_read, pc, hass_data, entities>>

\* api.line_status(LuasLine.Red) ends and the status coordinator's refresh with it
RedFetched ==
    /\ coord["status"] = "Refreshing"
    /\ green_status # None
    /\ \E outcome \in { ApiReturn(v) : v \in LineStatuses } \cup {ApiRaise, ApiTimeout} :
          EndRefresh("status", async_update_status_data(green_status.val, outcome), outcome)
    /\ green_status' = None
    /\ UNCHANGED <<FlowVars, IdVars, entry, last_read, pc, hass_data, entities>>

\* sensor.async_setup_entry resumes after the stop coordinator's first
\* refresh and starts the status coordinator's
SetupAwaitStatus ==
    /\ pc = "first_refresh_stop"
    /\ refreshed["stop"]
    /\ coord' = [coord EXCEPT !["status"] = "Refreshing"]
    /\ pc' = "first_refresh_status"
    /\ UNCHANGED <<FlowVars, IdVars, entry, cache, last_read, hass_data, update_ok, timer,
                   refreshed, entities, green_status, api_result>>

\* sensor.async_setup_entry resumes after the status coordinator's first
\* refresh: both async_add_entities calls, then return
SetupAddEntities ==
    /\ pc = "first_refresh_status"
    /\ refreshed["status"]
    /\ entities' = SensorsOf(entry)
    /\ pc' = "running"
    /\ UNCHANGED <<FlowVars, IdVars, entry, cache, last_read, hass_data, coord, update_ok,
                   timer, refreshed, green_status, api_result>>

\* The interval of coordinator c (30 s for stop, 120 s for status) elapses
Tick(c) ==
    /\ timer[c]
    /\ coord[c] \in {"Ready", "Failed"}
    /\ coord' = [coord EXCEPT ![c] = "Refreshing"]
    /\ timer' = [timer EXCEPT ![c] = FALSE]
    /\ UNCHANGED <<FlowVars, IdVars, entry, cache, last_read, pc, hass_data, update_ok,
                   refreshed, entities, green_status, api_result>>

TickStop == Tick("stop")

TickStatus == Tick("status")

\* __init__.async_unload_entry with unload_ok: the client is dropped, the
\* sensors are removed, both coordinators stop; a fetch in flight is not
\* aborted and its result is dropped
UnloadEntry ==
    /\ pc = "running"
    /\ hass_data' = hass_data \ {"entry_id"}
    /\ pc' = "unloaded"
    /\ entities' = {}
    /\ coord' = [c \in Coordinators |-> "Stopped"]
    /\ timer' = [c \in Coordinators |-> FALSE]
    /\ green_status' = None
    /\ UNCHANGED <<FlowVars, IdVars, entry, cache, last_read, update_ok, refreshed, api_result>>

Next ==
    \/ InitSetupEntry
    \/ SensorSetupEntry
    \/ StopFetched
    \/ GreenFetched
    \/ RedFetched
    \/ SetupAwaitStatus
    \/ SetupAddEntities
    \/ TickStop
    \/ TickStatus
    \/ UnloadEntry

Spec == Init /\ [][Next]_vars

\* The host's timers fire and the transit client's calls end
FairSpec ==
    /\ Spec
    /\ WF_vars(TickStop) /\ WF_vars(TickStatus)
    /\ WF_vars(StopFetched) /\ WF_vars(GreenFetched) /\ WF_vars(RedFetched)
    /\ WF_vars(SetupAwaitStatus) /\ WF_vars(SetupAddEntities)
    /\ WF_vars(InitSetupEntry) /\ WF_vars(SensorSetupEntry)

-----------------------------------------------------------------------------
(* SpecId: the unique_id of two sensors of one class *)

KnownCodes == StopCodes \ {s_XXX}

Directions == {ATTR_INBOUND_VAL, ATTR_OUTBOUND_VAL}

SensorObjects ==
    { LuasTramSensor(i, c, d, t) : i \in 0..3, c \in KnownCodes, d \in Directions, t \in KnownCodes }
    \cup { LuasTramSensor(i, c, d, None) : i \in 0..3, c \in KnownCodes, d \in Directions }
    \cup { LuasTramWaitSensor(w, c, d, t) :
              w \in WalkTimes, c \in KnownCodes, d \in Directions, t \in KnownCodes }
    \cup { LuasTramWaitSensor(w, c, d, None) : w \in WalkTimes, c \in KnownCodes, d \in Directions }
    \cup { LuasStatusSensor(l) : l \in {s_green, s_red} }

InitId ==
    /\ NoFlow /\ NoEntry
    /\ sensor_pair \in { p \in SensorObjects \X SensorObjects : p[1].class = p[2].class }
    /\ uid_read = None

\* the host reads unique_id of both sensors
ReadUniqueId ==
    /\ uid_read' = <<unique_id(sensor_pair[1]), unique_id(sensor_pair[2])>>
    /\ UNCHANGED <<FlowVars, EntryVars, sensor_pair>>

NextId == ReadUniqueId

SpecId == InitId /\ [][NextId]_vars

-----------------------------------------------------------------------------
(* Claims about the config flow (checked under SpecFlow) *)

Submitted == user_input # None

\* the inputs the contract of validate_input speaks of: a stop, a direction
\* and an optional destination
Complete(data) == Has(data, "stop") /\ Has(data, "direction")

BadStop(data) == ~(\E s \in LUAS_STOPS : s.abrev = data["stop"])
BadDestination(data) ==
    Has(data, "destination") /\ ~(\E s \in LUAS_STOPS : s.abrev = data["destination"])
BadDirection(data) ==
    data["direction"] # ATTR_INBOUND_VAL /\ data["direction"] # ATTR_OUTBOUND_VAL

\* C1 as stated: each of the three conditions, on its own, decides the kind
\* of failure: an unknown stop fails with InvalidLuasStop, a supplied unknown
\* destination with InvalidLuasDestination, an unrecognized direction with
\* InvalidDirection, and every other input returns a title.
C1_Original ==
    (Submitted /\ Complete(user_input)) =>
        LET r == validate_input(user_input)
        IN  /\ BadStop(user_input) => r = Raise("InvalidLuasStop")
            /\ BadDestination(user_input) => r = Raise("InvalidLuasDestination")
            /\ BadDirection(user_input) => r = Raise("InvalidDirection")
            /\ (~BadStop(user_input) /\ ~BadDestination(user_input) /\ ~BadDirection(user_input))
                  => r.kind = "return"

\* C1 amended: validate_input fails exactly when one of the three conditions
\* holds, and the first of them in the order stop, destination, direction
\* decides the kind: InvalidLuasStop for an unknown stop; InvalidLuasDestination
\* for a supplied unknown destination when the stop is known; InvalidDirection
\* for an unrecognized direction when stop and destination pass.  The three
\* kinds differ, and every other input returns a title.
C1_ValidateInput ==
    (Submitted /\ Complete(user_input)) =>
        LET r == validate_input(user_input)
        IN  /\ BadStop(user_input) => r = Raise("InvalidLuasStop")
            /\ (~BadStop(user_input) /\ BadDestination(user_input))
                  => r = Raise("InvalidLuasDestination")
            /\ (~BadStop(user_input) /\ ~BadDestination(user_input) /\ BadDirection(user_input))
                  => r = Raise("InvalidDirection")
            /\ (~BadStop(user_input) /\ ~BadDestination(user_input) /\ ~BadDirection(user_input))
                  => (r.kind = "return" /\ Len(r.title) > 0)

\* a known stop, an unknown destination and an unrecognized direction were
\* submitted, and the destination decided the failure
C1_Witness ==
    /\ Submitted /\ Complete(user_input)
    /\ ~BadStop(user_input) /\ BadDestination(user_input) /\ BadDirection(user_input)
    /\ flow_result.type = "form"
    /\ validate_input(user_input) = Raise("InvalidLuasDestination")

NameOf(code) == (CHOOSE s \in LUAS_STOPS : s.abrev = code).name

\* C2: an entry is created with the title "{direction} from {stop.name}",
\* followed by " to {destination.name}" exactly when a destination was
\* supplied, both names being display names.
C2_TitleFromNames ==
    (flow_result # None /\ flow_result.type = "create_entry") =>
        flow_result.title =
            user_input["direction"] \o s_from \o NameOf(user_input["stop"])
            \o (IF Has(user_input, "destination")
                THEN s_to \o NameOf(user_input["destination"])
                ELSE <<>>)

FormErrors(input) == async_step_user(input).errors

ValidationErrors == {"InvalidLuasStop", "InvalidLuasDestination", "InvalidDirection"}

\* C3: each of the three validation failures re-shows the form with an error
\* message of its own, different from the other two and from "unknown";
\* "unknown" is shown only for other exceptions; an entry is created only
\* when validation succeeded.
C3_ErrorPerFailure ==
    Submitted =>
        LET r == validate_input(user_input)
        IN  /\ r.kind = "raise" => flow_result.type = "form"
            /\ flow_result.type = "create_entry" => r.kind = "return"
            /\ (r.kind = "raise" /\ r.exc \in ValidationErrors)
                  => flow_result.errors # {<<"base", "unknown">>}
            /\ (r.kind = "raise" /\ flow_result.errors = {<<"base", "unknown">>})
                  => r.exc \notin ValidationErrors
            /\ \A other \in UserInputs :
                  LET q == validate_input(other)
                  IN  (r.kind = "raise" /\ q.kind = "raise" /\ r.exc \in ValidationErrors
                       /\ q.exc \in ValidationErrors /\ r.exc # q.exc)
                         => FormErrors(other) # flow_result.errors

-----------------------------------------------------------------------------
(* Claims about the tram sensors (checked under SpecRead) *)

WasRead(class) == last_read # None /\ last_read.sensor.class = class

Cached == cache["stop"] # None

\* the positions of the cached list that the sensor's configuration selects:
\* the configured direction and, when a destination is configured, the
\* configured destination's display name
Matching(self) ==
    { i \in DOMAIN cache["stop"].trams :
        /\ cache["stop"].trams[i].direction = entry["direction"]
        /\ Has(entry, "destination")
              => cache["stop"].trams[i].destination = NameOf(entry["destination"]) }

\* the position of the k-th (from 0) selected entry, in list order
Nth(set, k) == CHOOSE i \in set : Cardinality({ j \in set : j < i }) = k

WellFormed(due) == due \in {ATTR_DUE_VAL, s_3, s_7, s_12}

\* the minutes a well-formed due stands for
Minutes(due) ==
    CASE due = ATTR_DUE_VAL -> 0
      [] due = s_3 -> 3
      [] due = s_7 -> 7
      [] due = s_12 -> 12

DueAt(i) == cache["stop"].trams[i].due

\* C4: an Arrival Sensor with index k reports the due minutes of the k-th
\* entry, in list order, among the entries of the configured direction (and
\* destination, when one is configured), "DUE" as 0 and a numeric string as
\* its integer; with fewer than k+1 such entries it is unavailable.
C4_ArrivalValue ==
    (WasRead("LuasTramSensor") /\ Cached) =>
        LET self == last_read.sensor
            sel == Matching(self)
        IN  IF Cardinality(sel) >= self.index + 1
            THEN WellFormed(DueAt(Nth(sel, self.index))) =>
                    /\ last_read.result["available"].b = TRUE
                    /\ last_read.result["state"] =
                          [kind |-> "return", n |-> Minutes(DueAt(Nth(sel, self.index)))]
            ELSE last_read.result["available"].b = FALSE

\* sensor 2 of an entry with a destination reported a due other than 0 from a
\* list whose first entry the filter drops
C4_Witness ==
    /\ WasRead("LuasTramSensor") /\ Cached
    /\ last_read.sensor.index = 2
    /\ last_read.sensor.destination # None
    /\ last_read.result["state"].kind = "return"
    /\ last_read.result["state"].n = 7
    /\ 1 \notin Matching(last_read.sensor)

\* a due that is neither "DUE" nor an integer, or too few matching arrivals
FormatError(self) ==
    \/ \E i \in Matching(self) : ~WellFormed(DueAt(i))
    \/ self.class = "LuasTramSensor" /\ Cardinality(Matching(self)) < self.index + 1

\* C5: with a data-format error in the cached list every read of an Arrival
\* or Wait-Time Sensor returns normally, the sensor being unavailable; no
\* read raises.
C5_NoReadRaises ==
    ((WasRead("LuasTramSensor") \/ WasRead("LuasTramWaitSensor")) /\ Cached) =>
        /\ \A prop \in DOMAIN last_read.result : last_read.result[prop].kind = "return"
        /\ FormatError(last_read.sensor) => last_read.result["available"].b = FALSE

\* the selected positions whose due strictly exceeds the walk time
Later(self) ==
    { i \in Matching(self) : WellFormed(DueAt(i)) /\ Minutes(DueAt(i)) > self.walk_time }

WaitValue(self) ==
    IF Later(self) = {}
    THEN [kind |-> "return", s |-> "unknown"]
    ELSE [kind |-> "return", n |-> Minutes(DueAt(Nth(Later(self), 0))) - self.walk_time]

-----------------------------------------------------------------------------
(* Claims about the coordinators and setup (checked under Spec and FairSpec) *)

\* a step in which coordinator c ends a refresh whose transit-client call
\* raised or timed out
FailedPoll(c) ==
    /\ coord[c] = "Refreshing"
    /\ coord'[c] \notin {"Refreshing", "Stopped"}
    /\ api_result'[c].kind \in {"raise", "timeout"}

\* a step in which coordinator c ends a refresh whose calls all returned
GoodPoll(c) ==
    /\ coord[c] = "Refreshing"
    /\ coord'[c] \notin {"Refreshing", "Stopped"}
    /\ api_result'[c].kind = "return"

Other(c) == CHOOSE d \in Coordinators : d # c

C7_FailedPollStep ==
    \A c \in Coordinators :
        /\ FailedPoll(c) =>
              /\ coord'[c] = "Failed"
              /\ update_ok'[c] = FALSE
              /\ cache'[c] = cache[c]
              /\ timer'[c] = TRUE
        /\ GoodPoll(c) =>
              /\ coord'[c] = "Ready"
              /\ update_ok'[c] = TRUE
              /\ cache'[c] = IF c = "stop"
                             THEN api_result'[c].val
                             ELSE [items |-> (s_green :> green_status.val)
                                             @@ (s_red :> api_result'[c].val)]
              /\ timer'[c] = TRUE
        /\ (FailedPoll(c) \/ GoodPoll(c)) =>
              /\ cache'[Other(c)] = cache[Other(c)]
              /\ coord'[Other(c)] = coord[Other(c)]
              /\ timer'[Other(c)] = timer[Other(c)]
              /\ update_ok'[Other(c)] = update_ok[Other(c)]

C7_TickEnabled ==
    \A c \in Coordinators :
        coord[c] = "Failed" => (timer[c] /\ ENABLED Tick(c))

\* C7: a poll whose fetch raises or times out (the status poll also when only
\* the second of its two calls fails) is reported as a failed update and
\* leaves the whole cached value as it was; it changes nothing of the other
\* coordinator; the timer is armed again, so that the next tick fires unless
\* the entry is unloaded first, and a fetch that then succeeds replaces the
\* cache.
C7_FailureKeepsCache ==
    /\ [][C7_FailedPollStep]_vars
    /\ []C7_TickEnabled
    /\ \A c \in Coordinators :
          (coord[c] = "Failed") ~> (coord[c] = "Refreshing" \/ pc = "unloaded")

\* the status poll failed at its second call after a successful poll, and the
\* earlier snapshot is still cached while the stop coordinator is ready
C7_Witness ==
    /\ coord["status"] = "Failed"
    /\ api_result["status"].kind = "raise"
    /\ green_status = None
    /\ cache["status"] # None
    /\ coord["stop"] = "Ready"
    /\ timer["status"]
    /\ pc = "running"

\* C8: in every state each registered Status Sensor's value is the status
\* cached for its line, and "unavailable" while the status coordinator has
\* completed no successful poll; reading it never raises.
C8_StatusValue ==
    \A self \in entities :
        self.class = "LuasStatusSensor" =>
            LuasStatusSensor_state(self, cache["status"]) =
                IF cache["status"] # None
                THEN [kind |-> "return", s |-> cache["status"].items[self.line]]
                ELSE [kind |-> "return", s |-> "unavailable"]

OfClass(class) == { e \in entities : e.class = class }

ConfiguredFor(e) ==
    /\ e.stop.abrev = entry["stop"]
    /\ e.direction = entry["direction"]
    /\ IF Has(entry, "destination")
       THEN e.destination # None /\ e.destination.abrev = entry["destination"]
       ELSE e.destination = None

\* C9: no sensor is registered before both first refreshes have completed,
\* the stop coordinator's before the status coordinator's starts; once
\* registered the sensors are two Status Sensors (green, red), four Arrival
\* Sensors with index 0..3 and one Wait-Time Sensor exactly when the entry
\* holds a walk_time.
C9_SetupOrder ==
    /\ entities # {} => (refreshed["stop"] /\ refreshed["status"])
    /\ coord["status"] # "Uninitialized" => refreshed["stop"]
    /\ pc = "running" =>
          /\ { e.line : e \in OfClass("LuasStatusSensor") } = {s_green, s_red}
          /\ Cardinality(OfClass("LuasStatusSensor")) = 2
          /\ { e.index : e \in OfClass("LuasTramSensor") } = 0..3
          /\ Cardinality(OfClass("LuasTramSensor")) = 4
          /\ \A e \in OfClass("LuasTramSensor") \cup OfClass("LuasTramWaitSensor") :
                ConfiguredFor(e)
          /\ Cardinality(OfClass("LuasTramWaitSensor")) = IF Has(entry, "walk_time") THEN 1 ELSE 0
          /\ \A e \in OfClass("LuasTramWaitSensor") : e.walk_time = entry["walk_time"]
          /\ Cardinality(entities) = IF Has(entry, "walk_time") THEN 7 ELSE 6

\* an entry with walk_time 0 is set up and its Wait-Time Sensor registered
C9_Witness ==
    /\ pc = "running"
    /\ Has(entry, "walk_time") /\ entry["walk_time"] = 0
    /\ OfClass("LuasTramWaitSensor") # {}
    /\ refreshed["stop"] /\ refreshed["status"]

-----------------------------------------------------------------------------
(* Claim about unique_id (checked under SpecId) *)

\* what the claim lets a unique_id depend on
Identity(self) ==
    CASE self.class = "LuasStatusSensor" -> <<self.line>>
      [] self.class = "LuasTramSensor" ->
            <<self.stop.abrev, self.direction, self.destination, self.index>>
      [] self.class = "LuasTramWaitSensor" ->
            <<self.stop.abrev, self.direction, self.destination>>

\* C10: every unique_id is lower-cased, is the same on every read, and two
\* sensors of one kind that differ in stop, direction, destination, index or
\* line have different unique_ids.
C10_UniqueIds ==
    uid_read # None =>
        /\ \A i \in 1..2 : \A k \in DOMAIN uid_read[i] :
              ~(\E u \in DOMAIN UpperCase : UpperCase[u] = uid_read[i][k])
        /\ uid_read = <<unique_id(sensor_pair[1]), unique_id(sensor_pair[2])>>
        /\ Identity(sensor_pair[1]) # Identity(sensor_pair[2]) => uid_read[1] # uid_read[2]

====
